---- MODULE Spec2Model ----
(***************************************************************************)
(* The transaction pipeline of EthExecutor (src/src/eth/executor.rs):      *)
(* transact and call, the pool of background EVM threads behind the work   *)
(* queue, the miner mutex, the storage the blocks are saved to and the two *)
(* broadcast channels (new heads, logs).                                   *)
(*                                                                         *)
(* The BlockMiner and the EthStorage implementations are not among the     *)
(* source files; they are modelled from sections 4.C and 4.D of the        *)
(* specification.  tokio's Mutex, oneshot and broadcast channels and the   *)
(* crossbeam queue are libraries, modelled by their documented behaviour.  *)
(***************************************************************************)
EXTENDS Integers, Sequences, FiniteSets, TLC

\* ------------------------------------------------------------------ bounds
\* Background EVM threads (Config::num_evms, at least 1).
NumEvms == 1
\* No transact is started once this many block numbers were handed out.
MaxBlocks == 2
\* The same for the behaviours in which one transact keeps meeting conflicts.
RetryBlocks == 5
\* Logs emitted by one execution.
MaxLogs == 1
\* Topics of a log (the program allows 0..4); the positions a combination
\* constrains go one further.
MaxTopics == 2
\* Pairs of a topic combination, and combinations of a filter.
MaxPairs == 2
MaxCombinations == 2
\* Highest block number of a log and of the bounds of a filter.
MaxFilterBlock == 1
\* Futures dropped by their callers while they await the EVM.
MaxCancels == 1
\* Backlog of a broadcast channel.  The program's value is u16::MAX = 65535;
\* the model keeps the name and scales the value down so that a receiver can
\* fall behind by more than the backlog.
NOTIFIER_CAPACITY == 1

\* Concurrent callers of the executor (JSON-RPC requests in flight), the
\* background EVM threads, and the receivers that may subscribe to new heads
\* and to logs.
Callers  == {1, 2}
Evms     == 1..NumEvms
HeadSubs == {1, 2}
LogSubs  == {1}

\* ------------------------------------------------------------- primitives
\* Address::ZERO and two ordinary addresses.
ZERO == 0
Addresses == {0, 1, 2}

\* Address::is_zero
is_zero(address) == address = ZERO

\* Hash::zero and the hash of a block header.  A hash is collision free and
\* block numbers are never handed out twice, so the number identifies it.
HashZero == 0
HashOf(number) == number + 1

None == [kind |-> "none"]

\* TransactionInput: the fields the pipeline reads.  `signer` is the
\* recovered address, `from` the declared one, `to` the account whose state
\* the execution changes; `logs` is how many logs the execution emits.
\* One input is signed by the zero address, one declares a zero `from` under
\* a real signer, and two change different accounts.
\* `fault` is the step of the pipeline that fails for this input, if any:
\* the EVM returns an error ("evm") or panics ("panic"), or check_conflicts
\* ("check"), mining ("mine") or save_block ("save") returns an error that
\* is not a conflict.
TransactionInputs ==
    { [kind |-> "transact", signer |-> ZERO, from |-> 1, to |-> 1, logs |-> 0,
       fault |-> "none"],
      [kind |-> "transact", signer |-> 1, from |-> ZERO, to |-> 1, logs |-> MaxLogs,
       fault |-> "none"],
      [kind |-> "transact", signer |-> 2, from |-> 2, to |-> 2, logs |-> MaxLogs,
       fault |-> "none"] }

\* CallInput with its point in time (Present): a read of one account.
CallInputs ==
    { [kind |-> "call", signer |-> 1, from |-> 1, to |-> 1, logs |-> 0,
       fault |-> "none"] }

VARIABLES
    pc,             \* position of each caller in transact / call
    input,          \* the TransactionInput or CallInput of the caller
    execution,      \* the Execution the caller holds (local of the loop)
    block,          \* the Block the caller mined (local of the loop)
    result,         \* what the operation returned
    attempts,       \* executions submitted by the current transact
    send_errors,    \* notification sends that failed in the current transact
    log_index,      \* next log of the block to notify
    evm_queue,      \* crossbeam channel of EvmTask
    reply,          \* the oneshot channel of each caller's task
    evm,            \* the task each background EVM thread is executing
    evm_send_errors, \* "failed to send evm execution result" lines logged
    evm_tx,         \* the sender of the queue: "open", "dropped" with the executor
    miner,          \* holder of the miner mutex
    block_number,   \* storage: the next block number to hand out
    blocks,         \* storage: the saved blocks
    accounts,       \* storage: committed version of each account
    block_notifier, \* broadcast channel of blocks
    log_notifier,   \* broadcast channel of mined logs
    heads_received, \* what each new-heads receiver got from recv
    logs_received,  \* what each logs receiver got from recv
    filter,         \* a LogFilter
    log,            \* a LogMined
    matched         \* what LogFilter::matches returned for them

callerVars == <<pc, input, execution, block, result, attempts, send_errors, log_index>>
evmVars == <<evm_queue, reply, evm, evm_send_errors, evm_tx>>
storageVars == <<block_number, blocks, accounts>>
notifierVars == <<block_notifier, log_notifier>>
receivedVars == <<heads_received, logs_received>>
filterVars == <<filter, log, matched>>
vars == <<callerVars, evmVars, miner, storageVars, notifierVars, receivedVars, filterVars>>

\* ------------------------------------------------------ broadcast channel
\* tokio::sync::broadcast: `sent` is every value the channel accepted, of
\* which the last `capacity` are retained; `next[r]` is the position of the
\* receiver's next value, -1 while the receiver does not exist.
channel(receivers) == [sent |-> <<>>, next |-> [r \in receivers |-> -1]]

receiver_count(ch) == Cardinality({r \in DOMAIN ch.next : ch.next[r] >= 0})

\* Sender::send: an error and no effect when there is no receiver; otherwise
\* the value is stored, releasing the oldest one when the backlog is full.
\* It never waits for a receiver.
send_ok(ch) == receiver_count(ch) > 0

send(ch, value) ==
    IF send_ok(ch) THEN [ch EXCEPT !.sent = Append(@, value)] ELSE ch

\* A bounded queue would make the sender wait for its slowest receiver.
send_ready_when_room(ch) ==
    \A r \in DOMAIN ch.next :
        ch.next[r] >= 0 => Len(ch.sent) - ch.next[r] < NOTIFIER_CAPACITY

\* The send of a notification is a plain call with nothing to await: it can
\* always be made.
send_ready(ch) == TRUE

\* Sender::subscribe: the new receiver gets the values sent from now on.
subscribe(ch, r) == [ch EXCEPT !.next[r] = Len(ch.sent)]

\* Position of the oldest value the channel still retains.
oldest(ch) ==
    IF Len(ch.sent) > NOTIFIER_CAPACITY THEN Len(ch.sent) - NOTIFIER_CAPACITY ELSE 0

\* Receiver::recv has something to return.
recv_ready(ch, r) == ch.next[r] >= 0 /\ ch.next[r] < Len(ch.sent)

\* Receiver::recv: Lagged(n) when the receiver's next value was released,
\* moving the receiver to the oldest retained value; otherwise the value.
\* `from` notes the position of the first of the n values that were lost.
recv_value(ch, r) ==
    IF ch.next[r] < oldest(ch)
    THEN [kind |-> "lagged", n |-> oldest(ch) - ch.next[r], from |-> ch.next[r]]
    ELSE [kind |-> "value", value |-> ch.sent[ch.next[r] + 1]]

recv_channel(ch, r) ==
    IF ch.next[r] < oldest(ch)
    THEN [ch EXCEPT !.next[r] = oldest(ch)]
    ELSE [ch EXCEPT !.next[r] = @ + 1]

\* ---------------------------------------------------------------- storage
\* The latest saved block, None when nothing was saved.
latest_block ==
    IF blocks = {} THEN None
    ELSE CHOOSE b \in blocks : \A o \in blocks : o.number <= b.number

\* Evm::execute at the present point in time: the Execution records the
\* committed value of the account it changes (`original`) and its logs, or
\* the EVM returns an error.
execute(in) ==
    IF in.fault = "evm" THEN [kind |-> "err", error |-> "EvmError"]
    ELSE [kind |-> "execution", address |-> in.to,
          original |-> accounts[in.to], logs |-> in.logs]

\* EthStorage::check_conflicts: the current committed value of every account
\* the execution changes is compared with the execution's original.
check_conflicts(ex) == accounts[ex.address] # ex.original

\* BlockMiner::mine_with_one_transaction: the next block number is acquired
\* from storage, the parent is the previous head.
mine_with_one_transaction(in, ex) ==
    [kind |-> "block", number |-> block_number,
     hash |-> HashOf(block_number),
     parent_hash |-> IF latest_block = None THEN HashZero ELSE latest_block.hash,
     transaction |-> in, execution |-> ex, logs |-> ex.logs]

\* Every operation of the storage may fail with StorageUnavailable.
check_conflicts_fails(in) == in.fault = "check"
mine_fails(in) == in.fault = "mine"

\* EthStorage::save_block: () | Conflict | NumberMismatch | ParentMismatch |
\* StorageUnavailable.
save_block(b) ==
    IF b.transaction.fault = "save" THEN "StorageUnavailable"
    ELSE IF check_conflicts(b.execution) THEN "Conflict"
    ELSE IF b.number # (IF latest_block = None THEN 0 ELSE latest_block.number + 1)
         THEN "NumberMismatch"
    ELSE IF b.parent_hash # (IF latest_block = None THEN HashZero ELSE latest_block.hash)
         THEN "ParentMismatch"
    ELSE "Ok"

\* ------------------------------------------------------------------- Init
\* EthExecutor::new(evms, eth_storage): one background thread per EVM, all
\* waiting on the queue; nothing mined, nobody subscribed.
new(num_evms) ==
    /\ pc = [c \in Callers |-> "idle"]
    /\ input = [c \in Callers |-> None]
    /\ execution = [c \in Callers |-> None]
    /\ block = [c \in Callers |-> None]
    /\ result = [c \in Callers |-> None]
    /\ attempts = [c \in Callers |-> 0]
    /\ send_errors = [c \in Callers |-> 0]
    /\ log_index = [c \in Callers |-> 0]
    /\ evm_queue = <<>>
    /\ reply = [c \in Callers |-> None]
    /\ evm = [w \in 1..num_evms |-> None]
    /\ evm_send_errors = 0
    /\ evm_tx = "open"
    /\ miner = 0
    /\ block_number = 0
    /\ blocks = {}
    /\ accounts = [a \in Addresses |-> 0]
    /\ block_notifier = channel(HeadSubs)
    /\ log_notifier = channel(LogSubs)
    /\ heads_received = [s \in HeadSubs |-> <<>>]
    /\ logs_received = [s \in LogSubs |-> <<>>]

Init ==
    /\ new(NumEvms)
    /\ filter = None /\ log = None /\ matched = None

\* --------------------------------------------------------------- transact
\* A caller starts transact (executor.rs:76) with some TransactionInput; the
\* callers stop submitting once `max` block numbers were handed out.
Transact(c, tx, max) ==
    /\ pc[c] = "idle"
    /\ evm_tx = "open"
    /\ block_number < max
    /\ input' = [input EXCEPT ![c] = tx]
    /\ pc' = [pc EXCEPT ![c] = "validate"]
    /\ execution' = [execution EXCEPT ![c] = None]
    /\ block' = [block EXCEPT ![c] = None]
    /\ result' = [result EXCEPT ![c] = None]
    /\ attempts' = [attempts EXCEPT ![c] = 0]
    /\ send_errors' = [send_errors EXCEPT ![c] = 0]
    /\ log_index' = [log_index EXCEPT ![c] = 0]
    /\ UNCHANGED <<evmVars, miner, storageVars, notifierVars, receivedVars>>
    /\ UNCHANGED filterVars

\* A validation that looks at the declared sender.
rejects_from(tx) == is_zero(tx.from)

\* The validation of transact: is the transaction rejected?
rejects(tx) == is_zero(tx.signer)

\* validate: a transaction signed by the zero address is returned as an error.
Validate(c) ==
    /\ pc[c] = "validate"
    /\ IF rejects(input[c])
       THEN /\ pc' = [pc EXCEPT ![c] = "done"]
            /\ result' = [result EXCEPT ![c] = [kind |-> "err", error |-> "ZeroSigner"]]
       ELSE /\ pc' = [pc EXCEPT ![c] = "execute"]
            /\ UNCHANGED result
    /\ UNCHANGED <<input, execution, block, attempts, send_errors, log_index,
                   evmVars, miner, storageVars, notifierVars, receivedVars>>
    /\ UNCHANGED filterVars

\* An EvmTask: the input and the sender of the oneshot channel.  `to` is the
\* caller that holds the receiver, 0 once the receiver was dropped.
EvmTask(in, c) == [kind |-> "task", input |-> in, to |-> c]

\* The thread has stopped: its clone of the queue's receiver is dropped.
Dead == [kind |-> "dead"]

\* crossbeam Sender::send fails when every receiver of the queue is dropped.
disconnected == \A w \in DOMAIN evm : evm[w] = Dead

\* What the awaiting caller gets when the oneshot sender is dropped unsent.
RecvError == [kind |-> "err", error |-> "RecvError"]

\* execute_in_evm, first half: a oneshot channel is created and the task is
\* put on the queue of the background EVMs; the error of the send is
\* returned.
ExecuteInEvm(c) ==
    /\ pc[c] = "execute"
    /\ IF disconnected
       THEN /\ pc' = [pc EXCEPT ![c] = "done"]
            /\ result' = [result EXCEPT ![c] = [kind |-> "err", error |-> "SendError"]]
            /\ UNCHANGED <<evm_queue, reply, attempts>>
       ELSE /\ evm_queue' = Append(evm_queue, EvmTask(input[c], c))
            /\ reply' = [reply EXCEPT ![c] = None]
            /\ attempts' = [attempts EXCEPT ![c] = @ + 1]
            /\ pc' = [pc EXCEPT ![c] = "await_evm"]
            /\ UNCHANGED result
    /\ UNCHANGED <<input, execution, block, send_errors, log_index,
                   evm, evm_send_errors, miner, storageVars, notifierVars, receivedVars>>
    /\ UNCHANGED <<evm_tx, filterVars>>

\* A call that goes on like transact.
after_execution_transact(in) == "check_conflicts"

\* Where a caller goes with the reply of the EVM: call returns it, transact
\* goes on to check the conflicts.
after_execution(in) == IF in.kind = "call" THEN "done" ELSE "check_conflicts"

\* execute_in_evm, second half: the reply of the oneshot channel is awaited;
\* an error of the channel or of the EVM is returned by the operation.
AwaitEvm(c) ==
    /\ pc[c] = "await_evm"
    /\ reply[c] # None
    /\ reply' = [reply EXCEPT ![c] = None]
    /\ IF reply[c].kind = "err"
       THEN /\ pc' = [pc EXCEPT ![c] = "done"]
            /\ result' = [result EXCEPT ![c] = reply[c]]
            /\ UNCHANGED execution
       ELSE /\ execution' = [execution EXCEPT ![c] = reply[c]]
            /\ pc' = [pc EXCEPT ![c] = after_execution(input[c])]
            /\ result' = [result EXCEPT ![c] =
                    IF after_execution(input[c]) = "done"
                    THEN [kind |-> "ok", execution |-> reply[c]] ELSE @]
    /\ UNCHANGED <<input, block, attempts, send_errors, log_index,
                   evm_queue, evm, evm_send_errors, miner, storageVars,
                   notifierVars, receivedVars>>
    /\ UNCHANGED <<evm_tx, filterVars>>

\* check_conflicts before mining: its error is returned, on a conflict the
\* loop continues.
CheckConflicts(c) ==
    /\ pc[c] = "check_conflicts"
    /\ IF check_conflicts_fails(input[c])
       THEN /\ pc' = [pc EXCEPT ![c] = "done"]
            /\ result' = [result EXCEPT ![c] =
                    [kind |-> "err", error |-> "StorageUnavailable"]]
            /\ UNCHANGED execution
       ELSE /\ pc' = [pc EXCEPT ![c] =
                    IF check_conflicts(execution[c]) THEN "execute" ELSE "lock"]
            /\ execution' = [execution EXCEPT ![c] =
                    IF check_conflicts(execution[c]) THEN None ELSE @]
            /\ UNCHANGED result
    /\ UNCHANGED <<input, block, attempts, send_errors, log_index,
                   evmVars, miner, storageVars, notifierVars, receivedVars>>
    /\ UNCHANGED filterVars

\* A lock that excludes nobody.
lock_free_always == TRUE

\* Mutex::lock can return: nobody holds the mutex.
lock_free == miner = 0

\* self.miner.lock().await
LockMiner(c) ==
    /\ pc[c] = "lock"
    /\ lock_free
    /\ miner' = c
    /\ pc' = [pc EXCEPT ![c] = "mine"]
    /\ UNCHANGED <<input, execution, block, result, attempts, send_errors, log_index,
                   evmVars, storageVars, notifierVars, receivedVars>>
    /\ UNCHANGED filterVars

\* A guard that is not dropped when mining fails.
guard_leaked(c) == c

\* The holder of the mutex after `?` returned the error of the miner:
\* miner_lock is dropped with the locals of the function.
guard_after_mine_error(c) == 0

\* miner_lock.mine_with_one_transaction(...): the block number is reserved;
\* the error of the miner is returned, which drops the guard.
Mine(c) ==
    /\ pc[c] = "mine"
    /\ IF mine_fails(input[c])
       THEN /\ pc' = [pc EXCEPT ![c] = "done"]
            /\ result' = [result EXCEPT ![c] =
                    [kind |-> "err", error |-> "StorageUnavailable"]]
            /\ miner' = guard_after_mine_error(c)
            /\ UNCHANGED <<block, block_number>>
       ELSE /\ block' = [block EXCEPT ![c] =
                    mine_with_one_transaction(input[c], execution[c])]
            /\ block_number' = block_number + 1
            /\ pc' = [pc EXCEPT ![c] = "save"]
            /\ UNCHANGED <<result, miner>>
    /\ UNCHANGED <<input, execution, attempts, send_errors, log_index,
                   evmVars, blocks, accounts, notifierVars, receivedVars>>
    /\ UNCHANGED filterVars

\* A loop that tries again after every error of save_block.
after_save_retry_all(saved) == IF saved = "Ok" THEN "notify_block" ELSE "execute"

\* Where the loop goes with the result of save_block.
after_save(saved) ==
    IF saved = "Ok" THEN "notify_block"
    ELSE IF saved = "Conflict" THEN "execute"
    ELSE "done"

\* A guard that outlives the iteration that met a conflict.
guard_kept_on_conflict(c, saved) == IF saved = "Conflict" THEN c ELSE 0

\* The holder of the mutex after the match on save_block: miner_lock is a
\* local of the loop body and is dropped by continue, return and break.
guard_after_save(c, saved) == 0

\* save_block and the match on its result.
SaveBlock(c) ==
    /\ pc[c] = "save"
    /\ LET saved == save_block(block[c]) IN
        /\ pc' = [pc EXCEPT ![c] = after_save(saved)]
        /\ IF saved = "Ok"
           THEN /\ blocks' = blocks \cup {block[c]}
                /\ accounts' = [accounts EXCEPT ![block[c].execution.address] = @ + 1]
           ELSE UNCHANGED <<blocks, accounts>>
        /\ result' = [result EXCEPT ![c] =
                IF after_save(saved) = "done"
                THEN [kind |-> "err", error |-> saved] ELSE @]
        /\ execution' = [execution EXCEPT ![c] =
                IF after_save(saved) = "execute" THEN None ELSE @]
        /\ block' = [block EXCEPT ![c] =
                IF after_save(saved) = "execute" THEN None ELSE @]
        /\ miner' = guard_after_save(c, saved)
    /\ UNCHANGED <<input, attempts, send_errors, log_index,
                   evmVars, block_number, notifierVars, receivedVars>>
    /\ UNCHANGED filterVars

\* A send whose error is returned to the caller of transact.
NotifyBlockOrFail(c) ==
    /\ pc[c] = "notify_block"
    /\ send_ready(block_notifier)
    /\ block_notifier' = send(block_notifier, block[c].number)
    /\ log_index' = [log_index EXCEPT ![c] = 0]
    /\ pc' = [pc EXCEPT ![c] = IF send_ok(block_notifier) THEN "notify_logs" ELSE "done"]
    /\ result' = [result EXCEPT ![c] =
            IF send_ok(block_notifier) THEN @ ELSE [kind |-> "err", error |-> "SendError"]]
    /\ UNCHANGED <<input, execution, block, attempts, send_errors,
                   evmVars, miner, storageVars, log_notifier, receivedVars>>
    /\ UNCHANGED filterVars

\* A block that is not announced.
NotifyBlockSkipped(c) ==
    /\ pc[c] = "notify_block"
    /\ pc' = [pc EXCEPT ![c] = "notify_logs"]
    /\ UNCHANGED <<input, execution, block, result, attempts, send_errors, log_index,
                   evmVars, miner, storageVars, notifierVars, receivedVars>>
    /\ UNCHANGED filterVars

\* block_notifier.send(block): a failed send is logged and nothing else.
NotifyBlock(c) ==
    /\ pc[c] = "notify_block"
    /\ send_ready(block_notifier)
    /\ block_notifier' = send(block_notifier, block[c].number)
    /\ send_errors' = [send_errors EXCEPT ![c] =
            IF send_ok(block_notifier) THEN @ ELSE @ + 1]
    /\ log_index' = [log_index EXCEPT ![c] = 0]
    /\ pc' = [pc EXCEPT ![c] = "notify_logs"]
    /\ UNCHANGED <<input, execution, block, result, attempts,
                   evmVars, miner, storageVars, log_notifier, receivedVars>>
    /\ UNCHANGED filterVars

\* An iteration over the logs from the last one to the first.
next_log_reversed(c) == block[c].logs - 1 - log_index[c]

\* The log the `for log in trx.logs` loop is at: the logs of the mined
\* transaction are in the order of their log_index, and the loop takes
\* them from the first on.
next_log(c) == log_index[c]

\* log_notifier.send(log) for the next log of the block's transaction.
NotifyLog(c) ==
    /\ pc[c] = "notify_logs"
    /\ log_index[c] < block[c].logs
    /\ send_ready(log_notifier)
    /\ log_notifier' = send(log_notifier, <<block[c].number, next_log(c)>>)
    /\ send_errors' = [send_errors EXCEPT ![c] =
            IF send_ok(log_notifier) THEN @ ELSE @ + 1]
    /\ log_index' = [log_index EXCEPT ![c] = @ + 1]
    /\ UNCHANGED <<pc, input, execution, block, result, attempts,
                   evmVars, miner, storageVars, block_notifier, receivedVars>>
    /\ UNCHANGED filterVars

\* The execution of an attempt made against the state before any block.
first_execution(c) == [execution[c] EXCEPT !.original = 0]

\* The execution the loop broke with: `execution` is bound anew in every
\* iteration, and break hands over the one of the iteration that saved.
loop_execution(c) == execution[c]

\* Ok(execution)
TransactReturn(c) ==
    /\ pc[c] = "notify_logs"
    /\ log_index[c] >= block[c].logs
    /\ pc' = [pc EXCEPT ![c] = "done"]
    /\ result' = [result EXCEPT ![c] = [kind |-> "ok", execution |-> loop_execution(c)]]
    /\ UNCHANGED <<input, execution, block, attempts, send_errors, log_index,
                   evmVars, miner, storageVars, notifierVars, receivedVars>>
    /\ UNCHANGED filterVars

\* The caller takes the result and the locals of the operation are dropped;
\* it may start another operation.
Finish(c) ==
    /\ pc[c] = "done"
    /\ pc' = [pc EXCEPT ![c] = "idle"]
    /\ input' = [input EXCEPT ![c] = None]
    /\ execution' = [execution EXCEPT ![c] = None]
    /\ block' = [block EXCEPT ![c] = None]
    /\ result' = [result EXCEPT ![c] = None]
    /\ attempts' = [attempts EXCEPT ![c] = 0]
    /\ send_errors' = [send_errors EXCEPT ![c] = 0]
    /\ log_index' = [log_index EXCEPT ![c] = 0]
    /\ UNCHANGED <<evmVars, miner, storageVars, notifierVars, receivedVars>>
    /\ UNCHANGED filterVars

\* ------------------------------------------------------------------- call
\* A caller starts call (executor.rs:136): execute_in_evm and nothing else.
Call(c, in) ==
    /\ pc[c] = "idle"
    /\ evm_tx = "open"
    /\ input' = [input EXCEPT ![c] = in]
    /\ pc' = [pc EXCEPT ![c] = "execute"]
    /\ execution' = [execution EXCEPT ![c] = None]
    /\ block' = [block EXCEPT ![c] = None]
    /\ result' = [result EXCEPT ![c] = None]
    /\ attempts' = [attempts EXCEPT ![c] = 0]
    /\ send_errors' = [send_errors EXCEPT ![c] = 0]
    /\ log_index' = [log_index EXCEPT ![c] = 0]
    /\ UNCHANGED <<evmVars, miner, storageVars, notifierVars, receivedVars>>
    /\ UNCHANGED filterVars

\* -------------------------------------------------------- background EVMs
\* A recv that leaves the task on the queue.
queue_after_peek(queue) == queue

\* The queue after a recv: the task is taken off.
queue_after_recv(queue) == Tail(queue)

\* evm_rx.recv(): an idle thread takes the oldest task of the queue.
EvmRecv(w) ==
    /\ evm[w] = None
    /\ evm_queue # <<>>
    /\ evm' = [evm EXCEPT ![w] = Head(evm_queue)]
    /\ evm_queue' = queue_after_recv(evm_queue)
    /\ UNCHANGED <<callerVars, reply, evm_send_errors, miner, storageVars,
                   notifierVars, receivedVars>>
    /\ UNCHANGED <<evm_tx, filterVars>>

\* A thread that stops when it cannot send the result.
after_send_stops(sent) == IF sent THEN None ELSE Dead

\* The thread after tx.send returned Ok or Err: the next turn of the loop.
after_send(sent) == None

\* tx.send(evm.execute(input)): the result is sent on the task's oneshot
\* channel; when the receiver was dropped the send fails, which is logged,
\* and either way the thread goes back to recv.
EvmExecute(w) ==
    /\ evm[w].kind = "task"
    /\ evm[w].input.fault # "panic"
    /\ IF evm[w].to = 0
       THEN /\ evm_send_errors' = evm_send_errors + 1
            /\ UNCHANGED reply
       ELSE /\ reply' = [reply EXCEPT ![evm[w].to] = execute(evm[w].input)]
            /\ UNCHANGED evm_send_errors
    /\ evm' = [evm EXCEPT ![w] = after_send(evm[w].to # 0)]
    /\ UNCHANGED <<callerVars, evm_queue, miner, storageVars, notifierVars, receivedVars>>
    /\ UNCHANGED <<evm_tx, filterVars>>

\* The thread has left its loop: the queue was closed.
Stopped == [kind |-> "stopped"]

\* A recv that keeps waiting on a closed queue.
recv_never_fails == FALSE

\* evm_rx.recv() returns Err: the queue is empty and its sender is dropped.
recv_fails == evm_queue = <<>> /\ evm_tx = "dropped"

\* The while-let loop ends on the Err of recv; the thread warns and stops.
EvmStop(w) ==
    /\ evm[w] = None
    /\ recv_fails
    /\ evm' = [evm EXCEPT ![w] = Stopped]
    /\ UNCHANGED <<callerVars, evm_queue, reply, evm_send_errors, evm_tx, miner,
                   storageVars, notifierVars, receivedVars>>
    /\ UNCHANGED filterVars

\* The executor is dropped, and evm_tx, the only sender of the queue, with
\* it.  Every operation borrows the executor, so none is in progress.
DropExecutor ==
    /\ evm_tx = "open"
    /\ \A c \in Callers : pc[c] = "idle"
    /\ evm_tx' = "dropped"
    /\ UNCHANGED <<callerVars, evm_queue, reply, evm, evm_send_errors, miner,
                   storageVars, notifierVars, receivedVars>>
    /\ UNCHANGED filterVars

\* The callers whose oneshot sender is in one of the tasks.
senders_in(tasks) == {tasks[i].to : i \in DOMAIN tasks} \ {0}

\* evm.execute(input) panics: the thread unwinds, which drops the oneshot
\* sender of its task and the thread's receiver of the queue, and stops.
\* When that was the last receiver the queue is disconnected and the tasks
\* left on it are dropped with their senders.
EvmPanic(w) ==
    /\ evm[w].kind = "task"
    /\ evm[w].input.fault = "panic"
    /\ evm' = [evm EXCEPT ![w] = Dead]
    /\ LET last == \A o \in DOMAIN evm \ {w} : evm[o] = Dead
           dropped == ({evm[w].to} \ {0}) \cup
                      (IF last THEN senders_in(evm_queue) ELSE {})
       IN  /\ evm_queue' = IF last THEN <<>> ELSE evm_queue
           /\ reply' = [c \in Callers |-> IF c \in dropped THEN RecvError ELSE reply[c]]
    /\ UNCHANGED <<callerVars, evm_send_errors, miner, storageVars,
                   notifierVars, receivedVars>>
    /\ UNCHANGED <<evm_tx, filterVars>>

\* The receiver of the caller's oneshot channel is dropped.
drop_receiver(task, c) == IF task.kind = "task" /\ task.to = c THEN [task EXCEPT !.to = 0] ELSE task

\* Tasks whose caller has gone and whose result nobody waits for.
orphans ==
    Cardinality({i \in DOMAIN evm_queue : evm_queue[i].to = 0})
        + Cardinality({w \in DOMAIN evm : evm[w].kind = "task" /\ evm[w].to = 0})

\* The caller drops the future of its operation while it awaits the EVM:
\* the oneshot receiver goes with it, the task stays where it is.  No future
\* is dropped once `max` were.
Cancel(c, max) ==
    /\ pc[c] = "await_evm"
    /\ evm_send_errors + orphans < max
    /\ pc' = [pc EXCEPT ![c] = "idle"]
    /\ input' = [input EXCEPT ![c] = None]
    /\ result' = [result EXCEPT ![c] = None]
    /\ attempts' = [attempts EXCEPT ![c] = 0]
    /\ reply' = [reply EXCEPT ![c] = None]
    /\ evm_queue' = [i \in DOMAIN evm_queue |-> drop_receiver(evm_queue[i], c)]
    /\ evm' = [w \in DOMAIN evm |-> drop_receiver(evm[w], c)]
    /\ UNCHANGED <<execution, block, send_errors, log_index, evm_send_errors,
                   miner, storageVars, notifierVars, receivedVars>>
    /\ UNCHANGED <<evm_tx, filterVars>>

\* ------------------------------------------------------------ subscribers
\* subscribe_to_new_heads
SubscribeToNewHeads(s) ==
    /\ block_notifier.next[s] < 0
    /\ block_notifier' = subscribe(block_notifier, s)
    /\ UNCHANGED <<callerVars, evmVars, miner, storageVars, log_notifier, receivedVars>>
    /\ UNCHANGED filterVars

\* subscribe_to_logs
SubscribeToLogs(s) ==
    /\ log_notifier.next[s] < 0
    /\ log_notifier' = subscribe(log_notifier, s)
    /\ UNCHANGED <<callerVars, evmVars, miner, storageVars, block_notifier, receivedVars>>
    /\ UNCHANGED filterVars

\* A new-heads subscriber receives from its broadcast::Receiver<Block>.
RecvHead(s) ==
    /\ recv_ready(block_notifier, s)
    /\ heads_received' = [heads_received EXCEPT ![s] = Append(@, recv_value(block_notifier, s))]
    /\ block_notifier' = recv_channel(block_notifier, s)
    /\ UNCHANGED <<callerVars, evmVars, miner, storageVars, log_notifier, logs_received>>
    /\ UNCHANGED filterVars

\* A logs subscriber receives from its broadcast::Receiver<LogMined>.
RecvLog(s) ==
    /\ recv_ready(log_notifier, s)
    /\ logs_received' = [logs_received EXCEPT ![s] = Append(@, recv_value(log_notifier, s))]
    /\ block_notifier' = block_notifier
    /\ log_notifier' = recv_channel(log_notifier, s)
    /\ UNCHANGED <<callerVars, evmVars, miner, storageVars, heads_received>>
    /\ UNCHANGED filterVars

\* ------------------------------------------------------------- log filter
Some(value) == [kind |-> "some", value |-> value]

\* slice::get: positions count from 0.
get(slice, index) == IF index < Len(slice) THEN Some(slice[index + 1]) ELSE None

\* A pair that rejects every log that has no topic at its position.
pair_rejects_absent(log_topics, topic_index, topic) ==
    get(log_topics, topic_index) = None \/ get(log_topics, topic_index).value # topic

\* log_topics.get(*topic_index).is_some_and(|log_topic| log_topic != topic)
pair_rejects(log_topics, topic_index, topic) ==
    get(log_topics, topic_index) # None /\ get(log_topics, topic_index).value # topic

\* LogFilterTopicCombination::matches: the pairs are tried in order and the
\* first one that rejects returns false.
RECURSIVE combination_matches_from(_, _, _)
combination_matches_from(combination, log_topics, i) ==
    IF i > Len(combination) THEN TRUE
    ELSE IF pair_rejects(log_topics, combination[i][1], combination[i][2]) THEN FALSE
    ELSE combination_matches_from(combination, log_topics, i + 1)

combination_matches(combination, log_topics) ==
    combination_matches_from(combination, log_topics, 1)

\* An upper bound that excludes to_block itself.
to_block_rejects_from(to_block, number) ==
    to_block # None /\ number >= to_block.value

\* self.to_block.as_ref().is_some_and(|to_block| log.block_number > *to_block)
to_block_rejects(to_block, number) ==
    to_block # None /\ number > to_block.value

\* Vec::contains
contains(vec, value) == \E i \in DOMAIN vec : vec[i] = value

\* An empty list of addresses that rejects nothing.
addresses_reject_unless_empty(addresses, address) ==
    addresses # <<>> /\ ~contains(addresses, address)

\* not(self.addresses.contains(log.address()))
addresses_reject(addresses, address) == ~contains(addresses, address)

\* The loop over topics_combinations: found_matching_combination after the
\* combinations from the i-th on were tried, break at the first match.
RECURSIVE found_matching_combination(_, _, _, _)
found_matching_combination(found, combinations, log_topics, i) ==
    IF i > Len(combinations) THEN found
    ELSE IF combination_matches(combinations[i], log_topics) THEN TRUE
    ELSE found_matching_combination(found, combinations, log_topics, i + 1)

\* LogFilter::matches
matches(f, l) ==
    IF l.block_number < f.from_block THEN FALSE
    ELSE IF to_block_rejects(f.to_block, l.block_number) THEN FALSE
    ELSE IF addresses_reject(f.addresses, l.address) THEN FALSE
    ELSE found_matching_combination(f.topics_combinations = <<>>,
                                    f.topics_combinations, l.topics, 1)

\* filter.matches(&log) is called and returns.
Matches ==
    /\ filter # None /\ matched = None
    /\ matched' = Some(matches(filter, log))
    /\ UNCHANGED <<filter, log, callerVars, evmVars, miner, storageVars,
                   notifierVars, receivedVars>>

\* Sequences of at most n elements of S.
SeqsUpTo(S, n) == UNION {[1..k -> S] : k \in 0..n}

\* LogTopic values, the (position, topic) pairs of a combination, the topics
\* of a log.
LogTopics == {1, 2}
Pairs == (0..MaxTopics) \X LogTopics
TopicsOfLog == SeqsUpTo(LogTopics, MaxTopics)

\* The addresses of a filter, the emitters of the logs, the block numbers.
FilterAddresses == {<<>>, <<1>>, <<2>>, <<1, 2>>}
LogAddresses == {1, 2}
FilterBlocks == 0..MaxFilterBlock

LogFilter(from_block, to_block, addresses, topics_combinations) ==
    [from_block |-> from_block, to_block |-> to_block, addresses |-> addresses,
     topics_combinations |-> topics_combinations]

LogMined(number, address, topics) ==
    [block_number |-> number, address |-> address, topics |-> topics]

\* --------------------------------------------------------- specifications
\* A caller starts an operation.
Start(txs, ins, max) ==
    \/ \E c \in Callers, tx \in txs : Transact(c, tx, max)
    \/ \E c \in Callers, in \in ins : Call(c, in)

\* A caller advances in its operation.
Advance ==
    \/ \E c \in Callers : Validate(c)
    \/ \E c \in Callers : ExecuteInEvm(c)
    \/ \E c \in Callers : AwaitEvm(c)
    \/ \E c \in Callers : CheckConflicts(c)
    \/ \E c \in Callers : LockMiner(c)
    \/ \E c \in Callers : Mine(c)
    \/ \E c \in Callers : SaveBlock(c)
    \/ \E c \in Callers : NotifyBlock(c)
    \/ \E c \in Callers : NotifyLog(c)
    \/ \E c \in Callers : TransactReturn(c)
    \/ \E c \in Callers : Finish(c)

\* A background EVM thread advances.
EvmStep ==
    \/ \E w \in DOMAIN evm : EvmRecv(w)
    \/ \E w \in DOMAIN evm : EvmExecute(w)

\* A new-heads subscriber advances.
HeadStep(subs) ==
    \/ \E s \in subs : SubscribeToNewHeads(s)
    \/ \E s \in subs : RecvHead(s)

\* A logs subscriber advances.
LogStep(subs) ==
    \/ \E s \in subs : SubscribeToLogs(s)
    \/ \E s \in subs : RecvLog(s)

\* The executor with its callers, EVM threads and subscribers.
Next ==
    \/ Start(TransactionInputs, CallInputs, MaxBlocks)
    \/ Advance
    \/ EvmStep
    \/ HeadStep({1})
    \/ LogStep({1})

Spec == Init /\ [][Next]_vars

\* The executor while nobody has subscribed: every notification send fails.
NextPipeline ==
    \/ Start(TransactionInputs, CallInputs, MaxBlocks)
    \/ Advance
    \/ EvmStep

SpecPipeline == Init /\ [][NextPipeline]_vars

\* The executor with one subscriber to new heads.
NextHeads ==
    \/ Start(TransactionInputs, CallInputs, MaxBlocks)
    \/ Advance
    \/ EvmStep
    \/ HeadStep({1})

SpecHeads == Init /\ [][NextHeads]_vars

\* Transactions that change one account, submitted again and again.
RetryInputs == {tx \in TransactionInputs : tx.to = 2}

\* The executor with two subscribers to new heads and transactions that
\* change one account.
NextLag ==
    \/ \E c \in Callers, tx \in RetryInputs : Transact(c, tx, MaxBlocks)
    \/ Advance
    \/ EvmStep
    \/ HeadStep(HeadSubs)

SpecLag == Init /\ [][NextLag]_vars

\* The executor with one subscriber to new heads and transactions that
\* change one account.
NextDeliver ==
    \/ \E c \in Callers, tx \in RetryInputs : Transact(c, tx, MaxBlocks)
    \/ Advance
    \/ EvmStep
    \/ HeadStep({1})

SpecDeliver == Init /\ [][NextDeliver]_vars

\* The same under the scheduling the runtime gives: a transact that has a
\* notification to send is run and sends it, and a subscriber that has
\* something to receive receives it.
FairSpecDeliver ==
    /\ SpecDeliver
    /\ \A c \in Callers : WF_vars(NotifyBlock(c))
    /\ WF_vars(RecvHead(1))

\* The executor under a stream of conflicting transactions.
NextRetry ==
    \/ \E c \in Callers, tx \in RetryInputs : Transact(c, tx, RetryBlocks)
    \/ Advance
    \/ EvmStep

SpecRetry == Init /\ [][NextRetry]_vars

\* Transactions for which one step of the pipeline fails.
Faults == {"evm", "check", "mine", "save"}
FaultInputs ==
    { [kind |-> "transact", signer |-> 2, from |-> 2, to |-> 2, logs |-> MaxLogs,
       fault |-> f] : f \in Faults }

\* The executor with one subscriber to new heads, when the EVM and the
\* storage may fail.
NextFaults ==
    \/ \E c \in Callers, tx \in RetryInputs \cup FaultInputs : Transact(c, tx, MaxBlocks)
    \/ Advance
    \/ EvmStep
    \/ HeadStep({1})

SpecFaults == Init /\ [][NextFaults]_vars

\* A filter of one topic combination applied to the logs of one address in
\* one block: what LogFilterTopicCombination::matches decides.
InitTopics ==
    /\ new(NumEvms)
    /\ filter \in {LogFilter(0, None, <<1>>, <<combination>>) :
                        combination \in SeqsUpTo(Pairs, MaxPairs)}
    /\ log \in {LogMined(0, 1, topics) : topics \in TopicsOfLog}
    /\ matched = None

NextTopics == Matches

SpecTopics == InitTopics /\ [][NextTopics]_vars

\* Filters over block ranges, addresses and lists of short combinations,
\* applied to logs of either address with at most one topic.
ShortCombinations == SeqsUpTo({0, 1} \X LogTopics, 1)
InitFilter ==
    /\ new(NumEvms)
    /\ filter \in {LogFilter(from_block, to_block, addresses, combinations) :
                        from_block \in FilterBlocks,
                        to_block \in {None} \cup {Some(n) : n \in FilterBlocks},
                        addresses \in FilterAddresses,
                        combinations \in SeqsUpTo(ShortCombinations, MaxCombinations)}
    /\ log \in {LogMined(number, address, topics) :
                        number \in FilterBlocks,
                        address \in LogAddresses,
                        topics \in SeqsUpTo(LogTopics, 1)}
    /\ matched = None

NextFilter == Matches

SpecFilter == InitFilter /\ [][NextFilter]_vars

\* The executor over a pool of one more background EVM.
InitPool ==
    /\ new(NumEvms + 1)
    /\ filter = None /\ log = None /\ matched = None

NextPool ==
    \/ Start(RetryInputs, CallInputs, MaxBlocks)
    \/ Advance
    \/ EvmStep

SpecPool == InitPool /\ [][NextPool]_vars

\* A transaction whose execution panics.
PanicInputs ==
    { [kind |-> "transact", signer |-> 2, from |-> 2, to |-> 2, logs |-> MaxLogs,
       fault |-> "panic"] }

\* The executor when an execution may panic.
NextPanic ==
    \/ Start(RetryInputs \cup PanicInputs, CallInputs, MaxBlocks)
    \/ Advance
    \/ EvmStep
    \/ \E w \in DOMAIN evm : EvmPanic(w)

SpecPanic == Init /\ [][NextPanic]_vars

\* The executor when callers may drop their operation while it awaits the
\* EVM.
NextCancel ==
    \/ Start(RetryInputs, CallInputs, MaxBlocks)
    \/ Advance
    \/ EvmStep
    \/ \E c \in Callers : Cancel(c, MaxCancels)

SpecCancel == Init /\ [][NextCancel]_vars

\* The executor from its construction to its drop, with callers that may
\* leave tasks behind on the queue.
NextShutdown ==
    \/ Start(RetryInputs, CallInputs, MaxBlocks)
    \/ Advance
    \/ EvmStep
    \/ \E c \in Callers : Cancel(c, MaxCancels)
    \/ DropExecutor
    \/ \E w \in DOMAIN evm : EvmStop(w)

SpecShutdown == Init /\ [][NextShutdown]_vars

\* The background EVMs are threads of the operating system: a thread that
\* can take a step takes it.
FairSpecShutdown ==
    /\ SpecShutdown
    /\ \A w \in 1..NumEvms :
          WF_vars(EvmRecv(w)) /\ WF_vars(EvmExecute(w)) /\ WF_vars(EvmStop(w))

\* Transactions whose mining or whose save_block fails.
MinerFaultInputs == {tx \in FaultInputs : tx.fault \in {"mine", "save"}}

\* The executor when the miner and save_block may fail.
NextMiner ==
    \/ \E c \in Callers, tx \in RetryInputs \cup MinerFaultInputs :
            Transact(c, tx, MaxBlocks)
    \/ Advance
    \/ EvmStep

SpecMiner == Init /\ [][NextMiner]_vars

\* The same under the scheduling of the runtime and of the threads: a task
\* that can go on does, and tokio's Mutex serves its waiters in the order
\* they came, so a waiter that finds the mutex free again and again gets it.
FairSpecMiner ==
    /\ SpecMiner
    /\ \A c \in Callers :
          /\ SF_vars(LockMiner(c))
          /\ WF_vars(Mine(c)) /\ WF_vars(SaveBlock(c))

\* Transactions whose execution emits more than one log.
NotifyInputs ==
    { [kind |-> "transact", signer |-> 2, from |-> 2, to |-> 2,
       logs |-> MaxLogs + 1, fault |-> "none"] }

\* The executor with a subscriber to new heads and a subscriber to logs,
\* which subscribe at any time; the callers stop submitting one block
\* number earlier than elsewhere.
NextNotify ==
    \/ \E c \in Callers, tx \in NotifyInputs : Transact(c, tx, MaxBlocks - 1)
    \/ Advance
    \/ EvmStep
    \/ SubscribeToNewHeads(1)
    \/ SubscribeToLogs(1)

SpecNotify == Init /\ [][NextNotify]_vars

\* ----------------------------------------------------------------- claims
saved_numbers == {b.number : b \in blocks}

\* Numbers handed out to a block that is mined and not yet saved.
numbers_in_flight == {block[c].number : c \in {d \in Callers : pc[d] = "save"}}

\* C1: the numbers of the saved blocks are 0, 1, 2, ... without a gap, no
\* number handed out by storage is skipped (each is saved, or belongs to
\* the block being saved), and every saved block n >= 1 has the hash of the
\* saved block n-1 as its parent_hash.
C1_ChainContiguous ==
    /\ saved_numbers = 0..(Cardinality(blocks) - 1)
    /\ \A n \in 0..(block_number - 1) : n \in saved_numbers \cup numbers_in_flight
    /\ \A b \in blocks : b.number >= 1 =>
          \E p \in blocks : p.number = b.number - 1 /\ b.parent_hash = p.hash

\* C2: at most one caller is between the start of
\* mine_with_one_transaction and the return of its save_block, and that
\* caller holds the miner mutex.
C2_MiningSerialised ==
    /\ Cardinality({c \in Callers : pc[c] \in {"mine", "save"}}) <= 1
    /\ \A c \in Callers : pc[c] \in {"mine", "save"} => miner = c

\* A caller is saving its block while the other one waits for the mutex.
C2_Witness ==
    \E c, d \in Callers : c # d /\ pc[c] = "save" /\ pc[d] = "lock"

\* The block numbers a new-heads receiver got, in the order it got them.
heads_of(s) ==
    LET got == heads_received[s]
        F[i \in 0..Len(got)] ==
            IF i = 0 THEN <<>>
            ELSE IF got[i].kind = "value" THEN Append(F[i - 1], got[i].value)
            ELSE F[i - 1]
    IN F[Len(got)]

\* A transact has saved block n and is about to announce it.
announcing(n) ==
    \E c \in Callers : pc[c] = "notify_block" /\ block[c].number = n

\* The receiver exists.
subscribed(s) == block_notifier.next[s] >= 0

\* The receiver got block n.
delivered(s, n) == \E i \in DOMAIN heads_of(s) : heads_of(s)[i] = n

\* The receiver was told that it lagged.
lagged(s) == \E i \in DOMAIN heads_received[s] : heads_received[s][i].kind = "lagged"

\* Block n is among the values the receiver lost by lagging.
lost(s, n) ==
    \E i \in DOMAIN heads_received[s] :
        /\ heads_received[s][i].kind = "lagged"
        /\ \E k \in 1..Len(block_notifier.sent) :
              /\ block_notifier.sent[k] = n
              /\ k > heads_received[s][i].from
              /\ k <= heads_received[s][i].from + heads_received[s][i].n

\* C3: every subscriber to new heads receives the blocks in the order in
\* which save_block appended them, that is by increasing block number.
C3_HeadsInSaveOrder ==
    \A s \in HeadSubs : \A i, j \in DOMAIN heads_of(s) :
        i < j => heads_of(s)[i] < heads_of(s)[j]

\* C4: a transact that keeps meeting conflicts gives up after 5 attempts:
\* no call executes its transaction a sixth time.
C4_AttemptsBounded == \A c \in Callers : attempts[c] <= 5

\* A transact that passed validation has returned.
returned(c) ==
    pc[c] = "done" /\ input[c].kind = "transact" /\ ~is_zero(input[c].signer)

\* C5: once the concurrent transact calls have all returned, each of them
\* has appended its block (it returned its execution) and the numbers of the
\* appended blocks are exactly the numbers handed out: n0, n0+1, ...,
\* n0+K-1 with none missing.
C5_ConcurrentAppends ==
    (\A c \in Callers : pc[c] \in {"idle", "done"}) =>
        /\ \A c \in Callers : returned(c) => result[c].kind = "ok"
        /\ saved_numbers = 0..(block_number - 1)

\* The caller is in a transact whose transaction is signed by the zero address.
zero_signer(c) == input[c].kind = "transact" /\ is_zero(input[c].signer)

\* The caller took a step of its operation.
stepped(c) == pc'[c] # pc[c] \/ log_index'[c] # log_index[c]

\* C6: validation rejects a transaction exactly when its signer is the zero
\* address (a zero `from` under another signer passes), and a rejected
\* transact does nothing but return its error: no task on the EVM queue, no
\* miner mutex, no block number, no block, no notification.
C6_ZeroSignerRejected ==
    /\ [](\A c \in Callers :
            (pc[c] = "done" /\ input[c].kind = "transact") =>
                (result[c] = [kind |-> "err", error |-> "ZeroSigner"]
                    <=> is_zero(input[c].signer)))
    /\ [](\A c \in Callers :
            zero_signer(c) =>
                /\ pc[c] \in {"validate", "done"}
                /\ attempts[c] = 0 /\ send_errors[c] = 0
                /\ execution[c] = None /\ block[c] = None
                /\ miner # c
                /\ \A i \in DOMAIN evm_queue : evm_queue[i].to # c)
    /\ [][\A c \in Callers :
            /\ (zero_signer(c) /\ stepped(c)) =>
                  /\ pc'[c] \in {"done", "idle"}
                  /\ UNCHANGED <<evmVars, miner, storageVars, notifierVars>>
            /\ (pc[c] = "validate" /\ ~zero_signer(c) /\ stepped(c)) =>
                  pc'[c] = "execute" /\ result'[c] = None]_vars

\* One transact was rejected for its zero signer while a transaction that
\* declares a zero `from` under a real signer is being saved.
C6_Witness ==
    \E c, d \in Callers :
        /\ pc[c] = "done" /\ zero_signer(c) /\ result[c].kind = "err"
        /\ pc[d] = "save" /\ is_zero(input[d].from) /\ ~is_zero(input[d].signer)

\* The caller is in a call.
is_call(c) == input[c].kind = "call"

\* C7: a call changes no persisted state.  Whatever transact calls run
\* beside it, the call itself never takes the miner mutex, reserves no block
\* number, saves no block and sends no notification: each of its steps, and
\* the step of the EVM thread that executes it, leaves the mutex, the storage
\* and both channels as they are, so read_block(Latest) is the same before
\* and after.
C7_CallIsReadOnly ==
    /\ [](\A c \in Callers :
            is_call(c) =>
                /\ pc[c] \in {"execute", "await_evm", "done"}
                /\ miner # c /\ block[c] = None /\ send_errors[c] = 0)
    /\ [][\A c \in Callers :
            ((is_call(c) \/ is_call(c)') /\ stepped(c)) =>
                /\ UNCHANGED <<miner, storageVars, notifierVars>>
                /\ latest_block' = latest_block]_vars
    /\ [][\A w \in DOMAIN evm :
            (evm[w].kind = "task" /\ evm'[w] = None /\ evm[w].input.kind = "call") =>
                /\ UNCHANGED <<miner, storageVars, notifierVars>>
                /\ latest_block' = latest_block]_vars

\* A call has returned its execution while a transact of the other caller
\* is about to announce the block it saved.
C7_Witness ==
    \E c, d \in Callers :
        /\ is_call(c) /\ pc[c] = "done" /\ result[c].kind = "ok"
        /\ pc[d] = "notify_block"

\* C9: a notification send that fails for want of subscribers never fails
\* transact: a transact whose block was saved goes through its notifications
\* to return its execution, and the block stays persisted.
C9_SendFailureNotSurfaced ==
    /\ [](\A c \in Callers :
            /\ pc[c] \in {"notify_block", "notify_logs"} => block[c] \in blocks
            /\ (pc[c] = "done" /\ block[c] \in blocks) =>
                  result[c] = [kind |-> "ok", execution |-> execution[c]])
    /\ [][\A c \in Callers :
            (pc[c] \in {"notify_block", "notify_logs"} /\ stepped(c)) =>
                pc'[c] \in {"notify_logs", "done"}]_vars
    /\ [][blocks \subseteq blocks']_vars

\* A transact has returned its execution although the send of its block and
\* the send of each of its logs failed.
C9_Witness ==
    \E c \in Callers :
        /\ pc[c] = "done" /\ result[c].kind = "ok" /\ block[c] \in blocks
        /\ block[c].logs >= 1 /\ send_errors[c] = 1 + block[c].logs

\* How many values a receiver of the channel has not received yet.
behind(ch, r) == Len(ch.sent) - ch.next[r]

\* C10: no subscriber can delay transact.  A send can always be made,
\* whatever the receivers have or have not received.  A receiver that is more
\* than the backlog behind gets Lagged(n) from its next recv, n being the
\* number of values it lost, and continues with the oldest retained value;
\* otherwise recv returns the receiver's next value.  A recv changes nothing
\* for the other receivers, for the channel's content or for the callers.
C10_NoBackPressure ==
    /\ [](\A c \in Callers :
            /\ pc[c] = "notify_block" => ENABLED NotifyBlock(c)
            /\ pc[c] = "notify_logs" => ENABLED (NotifyLog(c) \/ TransactReturn(c)))
    /\ [][\A s \in HeadSubs :
            heads_received'[s] # heads_received[s] =>
                /\ IF behind(block_notifier, s) > NOTIFIER_CAPACITY
                   THEN /\ heads_received'[s] = Append(heads_received[s],
                              [kind |-> "lagged",
                               n |-> behind(block_notifier, s) - NOTIFIER_CAPACITY,
                               from |-> block_notifier.next[s]])
                        /\ behind(block_notifier', s) = NOTIFIER_CAPACITY
                   ELSE /\ heads_received'[s] = Append(heads_received[s],
                              [kind |-> "value",
                               value |-> block_notifier.sent[block_notifier.next[s] + 1]])
                        /\ behind(block_notifier', s) = behind(block_notifier, s) - 1
                /\ block_notifier'.sent = block_notifier.sent
                /\ \A r \in HeadSubs \ {s} :
                      /\ heads_received'[r] = heads_received[r]
                      /\ block_notifier'.next[r] = block_notifier.next[r]
                /\ UNCHANGED <<callerVars, evmVars, miner, storageVars>>]_vars

\* One receiver was told that it lagged while another one, subscribed as
\* early, received every block, and a transact is about to send again.
C10_Witness ==
    \E s, r \in HeadSubs :
        /\ s # r
        /\ lagged(s)
        /\ Len(heads_of(r)) = Len(block_notifier.sent)
        /\ Len(heads_of(r)) > NOTIFIER_CAPACITY
        /\ \E c \in Callers : pc[c] = "notify_block"

\* C8: a saved block is delivered exactly once to every new-heads
\* subscriber that subscribed before the block is announced (so also to
\* every one that subscribed before save_block returned), unless the
\* subscriber lagged beyond the backlog and lost it: no receiver gets a block
\* twice, and a block about to be announced while the receiver exists is
\* eventually received by it or among the blocks a Lagged told it it lost.
C8_HeadsDelivered ==
    /\ [](\A s \in HeadSubs : \A i, j \in DOMAIN heads_of(s) :
            i # j => heads_of(s)[i] # heads_of(s)[j])
    /\ \A n \in 0..(MaxBlocks + 1) :
            (announcing(n) /\ subscribed(1)) ~> (delivered(1, n) \/ lost(1, n))

\* The subscriber has received a block that was saved after it subscribed.
C8_Witness ==
    \E n \in saved_numbers :
        /\ delivered(1, n) /\ ~lagged(1)
        /\ heads_received[1][1] = [kind |-> "value", value |-> n]

\* The step the caller is about to take fails with an error that is not a
\* conflict.
failing(c) ==
    \/ pc[c] = "await_evm" /\ reply[c] # None /\ reply[c].kind = "err"
    \/ pc[c] = "check_conflicts" /\ input[c].fault = "check"
    \/ pc[c] = "mine" /\ input[c].fault = "mine"
    \/ pc[c] = "save" /\ save_block(block[c]) \notin {"Ok", "Conflict"}

\* The block numbers sent on the new-heads channel.
announced == {block_notifier.sent[i] : i \in DOMAIN block_notifier.sent}

\* C11: only a storage Conflict is retried.  When the EVM returns an error,
\* or check_conflicts, mining or save_block fails with an error that is not
\* a conflict, that step ends transact with the error: no task is put on
\* the EVM queue again, nothing is saved and nothing is sent on either
\* channel; and the loop goes back to the execution only when
\* check_conflicts or save_block found a conflict.
C11_OnlyConflictRetried ==
    /\ [](\A c \in Callers :
            (pc[c] = "done" /\ result[c].kind = "err") =>
                /\ send_errors[c] = 0 /\ log_index[c] = 0
                /\ block[c] # None =>
                      block[c] \notin blocks /\ block[c].number \notin announced)
    /\ [][\A c \in Callers :
            /\ (failing(c) /\ stepped(c)) =>
                  /\ pc'[c] = "done" /\ result'[c].kind = "err"
                  /\ attempts'[c] = attempts[c]
                  /\ miner' # c
                  /\ UNCHANGED <<evm_queue, blocks, accounts, notifierVars>>
            /\ (pc[c] = "check_conflicts" /\ pc'[c] = "execute") =>
                  accounts[execution[c].address] # execution[c].original
            /\ (pc[c] = "save" /\ pc'[c] = "execute") =>
                  accounts[block[c].execution.address] # block[c].execution.original
         ]_vars

\* A transact whose save_block failed with StorageUnavailable has returned
\* the error, after an earlier attempt of it met a conflict and was retried,
\* while a subscriber to new heads exists.
C11_Witness ==
    \E c \in Callers :
        /\ pc[c] = "done" /\ input[c].fault = "save"
        /\ result[c] = [kind |-> "err", error |-> "StorageUnavailable"]
        /\ attempts[c] = 2
        /\ subscribed(1)

\* The log has the expected topic at the position.
has_topic(topics, position, expected) ==
    position < Len(topics) /\ topics[position + 1] = expected

\* The combination matches the topics by the contract: every pair finds
\* its topic.
every_pair_found(combination, topics) ==
    \A i \in DOMAIN combination :
        has_topic(topics, combination[i][1], combination[i][2])

\* C12: a topic combination matches a log if and only if for every
\* (position, expected_topic) pair of it the log has a topic at that
\* position and it equals expected_topic; a pair whose position the log
\* does not have makes the combination not match.
C12_CombinationMatches ==
    (matched # None /\ Len(filter.topics_combinations) = 1) =>
        (matched.value <=> every_pair_found(filter.topics_combinations[1], log.topics))

\* The block number of the log is within the bounds of the filter.
in_range(f, l) ==
    /\ f.from_block <= l.block_number
    /\ f.to_block # None => l.block_number <= f.to_block.value

\* C13: a filter with an empty list of addresses matches any address: a log
\* within the block range is not rejected by a filter that has no addresses
\* and no topic combinations.
C13_EmptyAddressesMatchAny ==
    (matched # None /\ filter.addresses = <<>> /\ filter.topics_combinations = <<>>
        /\ in_range(filter, log)) => matched.value

\* C14: matches returns true only if the list of addresses is not empty and
\* contains the address of the log, whatever the block number and the topics.
C14_AddressListed ==
    (matched # None /\ matched.value) =>
        /\ filter.addresses # <<>>
        /\ \E i \in DOMAIN filter.addresses : filter.addresses[i] = log.address

\* A log was accepted by a filter that lists two addresses, and the topic
\* combinations of the filter do not constrain it.
C14_Witness ==
    /\ matched # None /\ matched.value
    /\ Len(filter.addresses) = 2 /\ filter.topics_combinations = <<>>

\* C15: matches accepts a log only if from_block <= log.block_number and,
\* when to_block is set, log.block_number <= to_block; a log in the block
\* to_block or in the block from_block is not rejected for its block, and
\* without to_block no block number is too high.
C15_BlockRange ==
    /\ (matched # None /\ matched.value) =>
          /\ filter.from_block <= log.block_number
          /\ filter.to_block # None => log.block_number <= filter.to_block.value
    /\ (matched # None /\ filter.topics_combinations = <<>>
            /\ (\E i \in DOMAIN filter.addresses : filter.addresses[i] = log.address)
            /\ filter.from_block <= log.block_number
            /\ (filter.to_block = None \/ log.block_number <= filter.to_block.value))
          => matched.value

\* A log of the highest block was accepted by a filter from_block =
\* to_block = that block.
C15_Witness ==
    /\ matched # None /\ matched.value
    /\ log.block_number = MaxFilterBlock
    /\ filter.from_block = MaxFilterBlock /\ filter.to_block = Some(MaxFilterBlock)

\* The log passes the block range and the address conditions.
passes_range_and_address(f, l) ==
    in_range(f, l) /\ \E i \in DOMAIN f.addresses : f.addresses[i] = l.address

\* The combinations of the filter, last first.
reversed(f) ==
    [f EXCEPT !.topics_combinations =
        [i \in DOMAIN @ |-> @[Len(@) + 1 - i]]]

\* C16: for a log that passes the block range and the address conditions,
\* matches returns true exactly when topics_combinations is empty or at least
\* one combination matches the topics of the log (every pair of it finds
\* its topic); the same filter with its combinations in another order gives
\* the same result.
C16_AnyCombination ==
    (matched # None /\ passes_range_and_address(filter, log)) =>
        /\ matched.value <=>
              \/ filter.topics_combinations = <<>>
              \/ \E i \in DOMAIN filter.topics_combinations :
                    every_pair_found(filter.topics_combinations[i], log.topics)
        /\ matched.value = matches(reversed(filter), log)

\* In how many places (of the queue, of the threads) a task of the caller is.
holders(c) ==
    Cardinality({i \in DOMAIN evm_queue : evm_queue[i].to = c})
        + Cardinality({w \in DOMAIN evm : evm[w].kind = "task" /\ evm[w].to = c})

\* C17: every task put on the queue is taken by exactly one thread; a thread
\* runs one task at a time and replies to it before it takes the next.  The
\* task of a caller that awaits its reply is in exactly one place, on the
\* queue or with one thread, and nowhere once it was replied to; at most as
\* many executions are in progress as there are threads; a thread leaves
\* its task only by replying to it, and a reply comes only from the thread
\* that leaves the task.
C17_PoolSerial ==
    /\ [](\A c \in Callers :
            holders(c) = (IF pc[c] = "await_evm" /\ reply[c] = None THEN 1 ELSE 0))
    /\ [](Cardinality({w \in DOMAIN evm : evm[w].kind = "task"})
                <= Cardinality(DOMAIN evm))
    /\ [][\A w \in DOMAIN evm :
            /\ (evm[w].kind = "task" /\ evm'[w] # evm[w]) =>
                  /\ evm'[w] = None
                  /\ reply[evm[w].to] = None /\ reply'[evm[w].to] # None
            /\ (evm[w] = None /\ evm'[w] # None) =>
                  /\ evm'[w] = Head(evm_queue)
                  /\ evm_queue' = Tail(evm_queue)
                  /\ \A o \in DOMAIN evm \ {w} : evm'[o] = evm[o]]_vars
    /\ [][\A c \in Callers :
            (reply[c] = None /\ reply'[c] # None) =>
                \E w \in DOMAIN evm :
                    evm[w].kind = "task" /\ evm[w].to = c /\ evm'[w] = None]_vars

\* Two threads are each executing the task of a different caller.
C17_Witness ==
    \E w, o \in DOMAIN evm :
        /\ evm[w].kind = "task" /\ evm[o].kind = "task"
        /\ evm[w].to # evm[o].to

\* C18: a panic of a thread during an execution is isolated.  The caller of
\* that request is not left waiting (a caller that awaits a reply has its
\* task on the queue of a pool that has a thread left, or with a thread),
\* and the pool keeps serving: an operation whose own execution did not
\* panic never fails on the queue or on its reply channel.
C18_PanicIsolated ==
    /\ \A c \in Callers :
          (pc[c] = "await_evm" /\ reply[c] = None) =>
              holders(c) = 1 /\ ~disconnected
    /\ \A c \in Callers :
          (pc[c] = "done" /\ result[c].kind = "err"
              /\ result[c].error \in {"SendError", "RecvError"}) =>
              input[c].fault = "panic"

\* C19: a transact holds the miner mutex exactly from the start of mining
\* to the return of save_block: not while it waits for the EVM or for
\* check_conflicts, nor anywhere else, and after a Conflict of save_block
\* the mutex is free before the transaction is executed again.
C19_MutexOnlyMineSave ==
    /\ [](\A c \in Callers : miner = c <=> pc[c] \in {"mine", "save"})
    /\ [][\A c \in Callers :
            (pc[c] = "save" /\ pc'[c] = "execute") => miner = c /\ miner' = 0]_vars

\* A transact whose save_block met a conflict (the number it reserved was
\* dropped) is waiting for the EVM again and nobody holds the mutex.
C19_Witness ==
    \E c \in Callers :
        /\ pc[c] = "await_evm" /\ attempts[c] = 2
        /\ block_number = 2 /\ Cardinality(blocks) = 1 /\ numbers_in_flight = {}
        /\ \A d \in Callers : result[d] = None
        /\ miner = 0

\* C20: a caller that dropped its reply channel never stops or blocks a
\* thread.  A thread that holds a task can always finish it and an idle
\* thread can always take the next task of the queue, no thread ever stops,
\* and the thread whose reply cannot be sent logs the failed send, touches
\* nothing of the callers and is back at the queue.
C20_DroppedCallerIgnored ==
    /\ [](\A w \in DOMAIN evm :
            /\ evm[w] # Dead
            /\ evm[w].kind = "task" => ENABLED EvmExecute(w)
            /\ (evm[w] = None /\ evm_queue # <<>>) => ENABLED EvmRecv(w))
    /\ [][\A w \in DOMAIN evm :
            (evm[w].kind = "task" /\ evm[w].to = 0 /\ evm'[w] # evm[w]) =>
                /\ evm'[w] = None
                /\ evm_send_errors' = evm_send_errors + 1
                /\ UNCHANGED <<callerVars, reply, evm_queue, miner,
                               storageVars, notifierVars>>]_vars

\* After a reply that could not be sent, the same pool is executing the
\* task of a caller that awaits it.
C20_Witness ==
    /\ evm_send_errors >= 1
    /\ \E w \in DOMAIN evm :
          evm[w].kind = "task" /\ evm[w].to # 0 /\ pc[evm[w].to] = "await_evm"

\* C21: once the queue is closed (the executor, and with it the only sender,
\* is dropped) every thread eventually leaves its loop and stops, and it
\* stops only when the queue is closed and empty: the tasks that were still
\* queued are taken and executed first, and no thread waits on the closed
\* queue.
C21_WorkersStopOnClose ==
    /\ (evm_tx = "dropped") ~> (\A w \in DOMAIN evm : evm[w] = Stopped)
    /\ [](\A w \in DOMAIN evm :
            evm[w] = Stopped => evm_queue = <<>> /\ evm_tx = "dropped")
    /\ [][\A w \in DOMAIN evm :
            (evm[w].kind = "task" /\ evm'[w] # evm[w] /\ evm_tx = "dropped") =>
                evm'[w] = None /\ evm_send_errors' = evm_send_errors + 1]_vars

\* Every thread has stopped on the closed queue, after a task that a caller
\* had left behind was executed.
C21_Witness ==
    /\ evm_tx = "dropped" /\ evm_queue = <<>>
    /\ \A w \in DOMAIN evm : evm[w] = Stopped
    /\ evm_send_errors >= 1

\* The saved blocks that changed the same account before block b did.
saved_before(b) ==
    {p \in blocks : p.execution.address = b.execution.address /\ p.number < b.number}

\* C22: the execution a successful transact returns is the one mined into
\* the block it saved, the execution of its last attempt: it was computed
\* on the state that every block saved before it had left (it passed the
\* conflict checks), never on an earlier state as the execution of an
\* attempt discarded after a conflict was.
C22_ReturnsSavedExecution ==
    /\ \A c \in Callers :
          (pc[c] = "done" /\ result[c].kind = "ok" /\ input[c].kind = "transact") =>
              /\ block[c] \in blocks
              /\ result[c].execution = block[c].execution
              /\ result[c].execution.original = Cardinality(saved_before(block[c]))
    /\ \A b \in blocks : b.execution.original = Cardinality(saved_before(b))

\* A transact has returned the execution of its second attempt, the first
\* one having been discarded after a conflict.
C22_Witness ==
    \E c \in Callers :
        /\ pc[c] = "done" /\ result[c].kind = "ok" /\ input[c].kind = "transact"
        /\ attempts[c] = 2
        /\ result[c].execution.original = 1

\* C23: the miner mutex is released on every way out of the critical
\* section.  The step that ends it (the save succeeded, met a conflict or
\* failed otherwise, or mining failed) leaves the mutex free; a transact
\* that has returned, with its execution or with an error, does not hold
\* it; and a transact that waits for the mutex eventually acquires it.
C23_MutexReleased ==
    /\ [][\A c \in Callers :
            (pc[c] \in {"mine", "save"} /\ pc'[c] \notin {"mine", "save"}) =>
                miner = c /\ miner' = 0]_vars
    /\ [](\A c \in Callers : pc[c] \in {"done", "idle"} => miner # c)
    /\ \A c \in Callers : (pc[c] = "lock") ~> (pc[c] = "mine")

\* A transact has acquired the mutex after the other one returned the error
\* of the miner and a block was saved.
C23_Witness ==
    \E c, d \in Callers :
        /\ pc[c] = "done" /\ input[c].fault = "mine" /\ result[c].kind = "err"
        /\ pc[d] = "mine" /\ miner = d
        /\ blocks # {}

\* The positions of the logs channel that hold a log of block n.
logs_of(n) == {k \in DOMAIN log_notifier.sent : log_notifier.sent[k][1] = n}

\* C24: for each successful transact the block is sent on the new-heads
\* channel before any of its logs is sent on the logs channel, and its logs
\* are sent in increasing log_index order, each once.  While the block is
\* not yet announced none of its logs was sent; the step that announces it
\* sends no log; each later step sends the log that follows the last one
\* sent; and on the channel the logs of one block appear by increasing
\* log_index with no repetition, a block at most once.
C24_HeadBeforeLogsInOrder ==
    /\ [](\A c \in Callers : pc[c] = "notify_block" => logs_of(block[c].number) = {})
    /\ [](\A k, l \in DOMAIN log_notifier.sent :
            (k < l /\ log_notifier.sent[k][1] = log_notifier.sent[l][1]) =>
                log_notifier.sent[k][2] < log_notifier.sent[l][2])
    /\ [](\A k, l \in DOMAIN block_notifier.sent :
            k # l => block_notifier.sent[k] # block_notifier.sent[l])
    /\ [][\A c \in Callers :
            /\ (pc[c] = "notify_block" /\ stepped(c)) =>
                  /\ pc'[c] = "notify_logs" /\ log_index'[c] = 0
                  /\ log_notifier' = log_notifier
                  /\ receiver_count(block_notifier) > 0 =>
                        block_notifier'.sent =
                            Append(block_notifier.sent, block[c].number)
            /\ (pc[c] = "notify_logs" /\ stepped(c) /\ log_index[c] < block[c].logs) =>
                  /\ pc'[c] = "notify_logs" /\ log_index'[c] = log_index[c] + 1
                  /\ block_notifier' = block_notifier
                  /\ receiver_count(log_notifier) > 0 =>
                        log_notifier'.sent =
                            Append(log_notifier.sent, <<block[c].number, log_index[c]>>)
            /\ (pc[c] = "notify_logs" /\ pc'[c] = "done") =>
                  log_index[c] = block[c].logs]_vars

\* A transact has returned after its block was sent to the new-heads
\* subscriber and its two logs, in their order, to the logs subscriber.
C24_Witness ==
    \E c \in Callers :
        /\ pc[c] = "done" /\ result[c].kind = "ok" /\ block[c].logs >= 2
        /\ block[c].number \in announced
        /\ \E k \in DOMAIN log_notifier.sent :
              /\ k + 1 \in DOMAIN log_notifier.sent
              /\ log_notifier.sent[k] = <<block[c].number, 0>>
              /\ log_notifier.sent[k + 1] = <<block[c].number, 1>>

====
